---- MODULE Spec2Model ----
(***************************************************************************)
(* Model of classify.py: the lint-report digestor.                         *)
(*                                                                         *)
(* Text is modelled as a sequence of tokens.  A token is either a single   *)
(* character (a blank, a digit, a punctuation mark, a one-letter word) or  *)
(* a maximal run of letters (a word).  The regular expressions of the      *)
(* source are translated node by node into a small regular-expression      *)
(* tree that is matched against token sequences by Ends below.  Patterns   *)
(* that the source leaves without a \b therefore match whole words only;   *)
(* the inputs of the model contain no word that extends a word of a        *)
(* pattern.                                                                *)
(***************************************************************************)
EXTENDS Naturals, Integers, Sequences, FiniteSets, TLC

(* Longest input, in lines. *)
MaxLines == 4

---------------------------------------------------------------------------
(* Tokens *)

WS == {" ", "\t"}
Digit == {"0", "1", "2", "3", "4", "5", "6", "7", "8", "9"}
Punct == {":", "'", "\"", "(", ")", "/", ",", "-", ".", "{", "}"}

(* \w: a token made of word characters. *)
IsWordTok(tok) == tok \notin (WS \cup Punct)

(* Case folding of re.I, for the words of the inputs that are not already  *)
(* lower case.                                                             *)
LowerTab ==
  [w \in {"TODO", "Unused", "Too", "Redefining", "Total", "Error", "Errors"} |->
     CASE w = "TODO" -> "todo"
       [] w = "Unused" -> "unused"
       [] w = "Too" -> "too"
       [] w = "Redefining" -> "redefining"
       [] w = "Total" -> "total"
       [] w = "Error" -> "error"
       [] w = "Errors" -> "errors"]

Lower(tok) == IF tok \in DOMAIN LowerTab THEN LowerTab[tok] ELSE tok

---------------------------------------------------------------------------
(* Regular expressions over tokens *)

Lit(w) == [k |-> "lit", w |-> w]        \* a literal, compared case-folded
Cls(S) == [k |-> "cls", s |-> S]        \* [...]
NCls(S) == [k |-> "ncls", s |-> S]      \* [^...]
AnyTok == NCls({"\n"})                  \* .
WordTok == [k |-> "w"]                  \* \w+ within one token
WB == [k |-> "wb"]                      \* \b
EOL == [k |-> "eol"]                    \* $
Cat(xs) == [k |-> "cat", xs |-> xs]
Alt(xs) == [k |-> "alt", xs |-> xs]
Star(x) == [k |-> "star", x |-> x]
Plus(x) == [k |-> "plus", x |-> x]
Opt(x) == [k |-> "opt", x |-> x]
Phrase(ws) == Cat([n \in DOMAIN ws |-> Lit(ws[n])])

SP == Lit(" ")
S0 == Star(Cls(WS))                     \* \s*
S1 == Plus(Cls(WS))                     \* \s+
D1 == Plus(Cls(Digit))                  \* \d+
Quote == Cls({"\"", "'"})               \* ["\']
NotQuote1 == Plus(NCls({"\"", "'"}))    \* [^"\']+

IsW(t, j) == j \in 1..Len(t) /\ IsWordTok(t[j])

RECURSIVE Ends(_, _, _)
RECURSIVE CatEnds(_, _, _, _)
RECURSIVE StarEnds(_, _, _)

(* The positions at which a match of re that starts at position j of t can *)
(* end (a position is the index of the next token to read).                *)
Ends(re, t, j) ==
  CASE re.k = "lit" -> IF j <= Len(t) /\ Lower(t[j]) = re.w THEN {j + 1} ELSE {}
    [] re.k = "cls" -> IF j <= Len(t) /\ Lower(t[j]) \in re.s THEN {j + 1} ELSE {}
    [] re.k = "ncls" -> IF j <= Len(t) /\ t[j] \notin re.s THEN {j + 1} ELSE {}
    [] re.k = "w" -> IF IsW(t, j) THEN {j + 1} ELSE {}
    [] re.k = "wb" -> IF IsW(t, j - 1) # IsW(t, j) THEN {j} ELSE {}
    [] re.k = "eol" -> IF j = Len(t) + 1 THEN {j} ELSE {}
    [] re.k = "cat" -> CatEnds(re.xs, 1, t, {j})
    [] re.k = "alt" -> UNION {Ends(re.xs[n], t, j) : n \in DOMAIN re.xs}
    [] re.k = "star" -> StarEnds(re.x, t, {j})
    [] re.k = "plus" -> StarEnds(re.x, t, Ends(re.x, t, j))
    [] re.k = "opt" -> {j} \cup Ends(re.x, t, j)

CatEnds(xs, n, t, S) ==
  IF n > Len(xs) \/ S = {} THEN S
  ELSE CatEnds(xs, n + 1, t, UNION {Ends(xs[n], t, j) : j \in S})

StarEnds(x, t, S) ==
  LET N == S \cup UNION {Ends(x, t, j) : j \in S}
  IN IF N = S THEN S ELSE StarEnds(x, t, N)

(* rx.match(s): a match that starts at the beginning of s. *)
re_match(re, t) == Ends(re, t, 1) # {}

(* rx.search(s): a match that starts anywhere in s. *)
re_search(re, t) == \E j \in 1..(Len(t) + 1) : Ends(re, t, j) # {}

---------------------------------------------------------------------------
(* Inputs *)

HdrA == <<" ", "a", ":", " ", "1", " ", "Error", ":">>
HdrNum == <<"1", ":", " ", "2", " ", "errors", ":">>
EntTodo == <<"5", ":", " ", "TODO">>
EntTodo7 == <<"7", ":", " ", "todo", "-", " ", "x">>
EntElse == <<"0", "5", ":", " ", "unnecessary", " ", "else">>
EntRedef ==
  <<"7", ":", " ", "Redefining", " ", "name", " ", "'", "x", "'", " ", "from", " ",
    "outer", " ", "scope", " ", "(", "line", " ", "2", ")">>
EntBoth ==
  <<"3", ":", " ", "Unused", " ", "import", " ", "Too", " ", "many", " ", "branches">>
EntNovel == <<" ", "3", ":", " ", "novel", " ">>
EntOdd == <<"1", "2", ":", "odd">>
Noise == <<"Total", " ", "errors">>

LineSet ==
  {HdrA, HdrNum, EntTodo, EntTodo7, EntElse, EntRedef, EntBoth, EntNovel, EntOdd, Noise}

Inputs == UNION {[1..n -> LineSet] : n \in 0..MaxLines}

---------------------------------------------------------------------------
(* Line grammar *)

(* File block header: "path: N errors:" *)
HEADER_RE ==
  Cat(<<S0, Plus(NCls({":", "\n"})), Lit(":"), S0, D1, S1,
        Alt(<<Lit("error"), Lit("errors")>>), Lit(":"), S0, EOL>>)

(* Entry: "LINE: message" *)
ENTRY_RE == Cat(<<S0, D1, Lit(":"), S0, Plus(AnyTok), S0, EOL>>)

RECURSIVE lstrip(_)
lstrip(t) == IF t # <<>> /\ Head(t) \in WS THEN lstrip(Tail(t)) ELSE t

RECURSIVE rstrip(_)
rstrip(t) ==
  IF t # <<>> /\ t[Len(t)] \in WS THEN rstrip(SubSeq(t, 1, Len(t) - 1)) ELSE t

(* str.strip() *)
strip(t) == rstrip(lstrip(t))

DigitVal(d) ==
  CASE d = "0" -> 0 [] d = "1" -> 1 [] d = "2" -> 2 [] d = "3" -> 3 [] d = "4" -> 4
    [] d = "5" -> 5 [] d = "6" -> 6 [] d = "7" -> 7 [] d = "8" -> 8 [] d = "9" -> 9

DigitChar == <<"0", "1", "2", "3", "4", "5", "6", "7", "8", "9">>

(* int() of a string of digits *)
RECURSIVE int(_)
int(ds) ==
  IF ds = <<>> THEN 0
  ELSE 10 * int(SubSeq(ds, 1, Len(ds) - 1)) + DigitVal(ds[Len(ds)])

(* str() of a natural number *)
RECURSIVE str(_)
str(n) ==
  IF n < 10 THEN <<DigitChar[n + 1]>>
  ELSE str(n \div 10) \o <<DigitChar[(n % 10) + 1]>>

(* The first colon of a line that matches HEADER_RE or ENTRY_RE.  Neither  *)
(* the file group [^:\n]+ nor \s*\d+ can cross it, so each group ends      *)
(* there and the next one starts behind it.                                 *)
FirstColon(t) ==
  CHOOSE j \in 1..Len(t) : t[j] = ":" /\ \A k \in 1..(j - 1) : t[k] # ":"

(* m.group("file").strip() *)
header_file(t) == strip(SubSeq(t, 1, FirstColon(t) - 1))

(* (int(e.group("line")), e.group("msg").strip()) *)
entry_of(t) ==
  [line |-> int(strip(SubSeq(t, 1, FirstColon(t) - 1))),
   msg |-> strip(SubSeq(t, FirstColon(t) + 1, Len(t)))]

(* The two grammars and the groups, tabulated over the lines of the inputs. *)
HeaderLines == {l \in LineSet : re_match(HEADER_RE, l)}
EntryLines == {l \in LineSet : re_match(ENTRY_RE, l)}
PathTab == [l \in HeaderLines |-> header_file(l)]
EntryTab == [l \in EntryLines |-> entry_of(l)]

(* HEADER_RE.match(line), ENTRY_RE.match(line) *)
is_header(t) == t \in HeaderLines
is_entry(t) == t \in EntryLines

---------------------------------------------------------------------------
(* Classification rules *)

None == "None"

(* The messages of the inputs. *)
Messages == {EntryTab[l].msg : l \in EntryLines}

ImportKind ==
  Alt(<<Lit("standard"),
        Cat(<<Lit("third"), S1, Lit("party")>>),
        Cat(<<Lit("first"), S1, Lit("party")>>)>>)

QuotedList ==
  Cat(<<Quote, NotQuote1, Quote,
        Star(Cat(<<S0, Lit(","), S0, Quote, NotQuote1, Quote>>))>>)

RULES == <<
  <<Cat(<<WB, Phrase(<<"trailing", " ", "whitespace">>), WB>>), "Trailing whitespace">>,
  <<Cat(<<WB, Phrase(<<"line", " ", "too", " ", "long", " ", "(">>), D1, Lit("/"), D1, Lit(")")>>),
    "Line too long">>,
  <<Cat(<<WB, Phrase(<<"unnecessary", " ", "pass">>), WB>>), "Unnecessary pass statement">>,
  <<Cat(<<WB, Lit("unused"), SP,
          Opt(Cat(<<Plus(Alt(<<WordTok, Lit(".")>>)), SP>>)),
          Alt(<<Lit("import"), Lit("imported")>>), WB>>), "Unused import">>,
  <<Cat(<<WB, Lit("import"), S1, Quote, NotQuote1, Quote, S1,
          Lit("should"), S1, Lit("be"), S1, Lit("placed"), S1, Lit("at"), S1,
          Lit("the"), S1, Lit("top"), S1, Lit("of"), S1, Lit("the"), S1,
          Lit("module")>>), "Import order">>,
  <<Cat(<<WB, ImportKind, S1, Lit("import"), S1, QuotedList, S1,
          Lit("should"), S1, Lit("be"), S1, Lit("placed"), S1, Lit("before"), S1,
          ImportKind, S1, Alt(<<Lit("import"), Lit("imports")>>), S1,
          QuotedList>>), "Import order">>,
  <<Cat(<<Lit("missing"), SP,
          Alt(<<Phrase(<<"function", " ", "or", " ", "method">>), Lit("module")>>),
          SP, Lit("docstring")>>), "Missing docstring">>,
  <<Cat(<<WB, Phrase(<<"function", " ", "is", " ", "missing", " ", "a", " ",
                       "return", " ", "type", " ", "annotation">>), WB>>),
    "Missing type annotation">>,
  <<Cat(<<WB, Phrase(<<"function", " ", "is", " ", "missing", " ", "a", " ",
                       "type", " ", "annotation">>), WB>>),
    "Missing type annotation">>,
  <<Cat(<<WB, Phrase(<<"call", " ", "to", " ", "untyped", " ", "function">>), WB>>),
    "Missing type annotation">>,
  <<Cat(<<WB, Lit("incompatible"), SP, Star(AnyTok), SP, Lit("type")>>), "Type error">>,
  <<Cat(<<Lit("\""), Lit("none"), Lit("\""), SP,
          Phrase(<<"has", " ", "no", " ", "attribute">>)>>), "Type error">>,
  <<Phrase(<<"incompatible", " ", "return", " ", "value", " ", "type">>), "Type error">>,
  <<Phrase(<<"cannot", " ", "find", " ", "implementation", " ", "or", " ", "library",
             " ", "stub", " ", "for", " ", "module", " ", "named">>), "Unresolved module">>,
  <<Cat(<<WB, Phrase(<<"unused", " ", "variable">>), WB>>), "Unused variable/argument">>,
  <<Cat(<<WB, Phrase(<<"unused", " ", "argument">>), WB>>), "Unused variable/argument">>,
  <<Cat(<<WB, Lit("todo"), WB, Opt(Cls({":", "-"}))>>), "TODO">>,
  <<Cat(<<WB, Lit("too"), SP, Lit("many"), SP,
          Alt(<<Phrase(<<"local", " ", "variables">>), Lit("branches"), Lit("arguments"),
                Phrase(<<"instance", " ", "attributes">>),
                Phrase(<<"public", " ", "methods">>), Lit("statements")>>), WB>>),
    "Complexity limit">>,
  <<Cat(<<WB, Alt(<<Lit("constant"), Lit("variable"), Lit("function"), Lit("method"),
                    Lit("class")>>), S1, Lit("name"), S1, Opt(Quote), NotQuote1,
          Opt(Quote), S1, Lit("doesn"), Cls({"'"}), Lit("t"), S1, Lit("conform"), S1,
          Lit("to"), S1,
          Alt(<<Lit("upper_case"), Cat(<<Lit("{"), Plus(NCls({"}"})), Lit("}")>>)>>),
          S1, Lit("naming"), S1, Lit("style")>>), "Naming style">>,
  <<Cat(<<WB, Lit("redefining"), SP, Lit("name"), S1, Opt(Quote), NotQuote1, Opt(Quote),
          S1, Phrase(<<"from", " ", "outer", " ", "scope">>), S0, Lit("("), Lit("line"),
          S0, D1, Lit(")")>>), "Redefined name">>,
  <<Phrase(<<"using", " ", "an", " ", "f", "-", "string", " ", "that", " ", "does", " ",
             "not", " ", "have", " ", "any", " ", "interpolated", " ", "variables">>),
    "Bad code logic">>,
  <<Phrase(<<"consider", " ", "explicitly", " ", "re", "-", "raising">>), "Bad code logic">>,
  <<Cat(<<WB, Phrase(<<"unnecessary", " ", "else">>), WB>>), "Bad code logic">>
>>

(* rx.search(msg) for every rule, tabulated over the messages of the inputs. *)
MatchTab == [m \in Messages |-> {n \in DOMAIN RULES : re_search(RULES[n][1], m)}]

(* classify with the loop run to its end: the last matching rule wins. *)
classify_last(msg) ==
  IF MatchTab[msg] = {} THEN None
  ELSE RULES[CHOOSE n \in MatchTab[msg] : \A m \in MatchTab[msg] : m <= n][2]

RECURSIVE classify_from(_, _)
classify_from(msg, n) ==
  IF n > Len(RULES) THEN None
  ELSE IF n \in MatchTab[msg] THEN RULES[n][2]
  ELSE classify_from(msg, n + 1)

classify(msg) == classify_from(msg, 1)

---------------------------------------------------------------------------
(* Helpers of the pipeline *)

PREFERRED_ORDER == <<
  "Unused import",
  "Import order",
  "Trailing whitespace",
  "Line too long",
  "Missing docstring",
  "Missing type annotation",
  "Type error",
  "Unresolved module",
  "Unused variable/argument",
  "Unnecessary pass statement",
  "TODO",
  "Naming style",
  "Complexity limit",
  "Redefined nameBad code logic">>

(* The order of Python's string comparison on the category names. *)
StrOrder == <<
  "Bad code logic", "Complexity limit", "Import order", "Line too long",
  "Missing docstring", "Missing type annotation", "Naming style", "Redefined name",
  "Redefined nameBad code logic", "TODO", "Trailing whitespace", "Type error",
  "Unnecessary pass statement", "Unresolved module", "Unused import",
  "Unused variable/argument">>

StrRank(c) == CHOOSE n \in DOMAIN StrOrder : StrOrder[n] = c

(* Code points of the characters that occur in file paths. *)
Code(ch) ==
  CASE ch = "\t" -> 9 [] ch = " " -> 32 [] ch = "a" -> 97 [] ch = "x" -> 120
    [] ch \in Digit -> 48 + DigitVal(ch)

(* Python's < on strings, for file paths. *)
RECURSIVE PathLess(_, _)
PathLess(p, q) ==
  IF q = <<>> THEN FALSE
  ELSE IF p = <<>> THEN TRUE
  ELSE IF Head(p) # Head(q) THEN Code(Head(p)) < Code(Head(q))
  ELSE PathLess(Tail(p), Tail(q))

RECURSIVE sorted_ints(_)
sorted_ints(S) ==
  IF S = {} THEN <<>>
  ELSE LET m == CHOOSE x \in S : \A y \in S : x <= y
       IN <<m>> \o sorted_ints(S \ {m})

RECURSIVE sorted_cats(_)
sorted_cats(S) ==
  IF S = {} THEN <<>>
  ELSE LET m == CHOOSE x \in S : \A y \in S : StrRank(x) <= StrRank(y)
       IN <<m>> \o sorted_cats(S \ {m})

RECURSIVE sorted_paths(_)
sorted_paths(S) ==
  IF S = {} THEN <<>>
  ELSE LET m == CHOOSE x \in S : \A y \in S \ {x} : PathLess(x, y)
       IN <<m>> \o sorted_paths(S \ {m})

EmptyMap == [x \in {} |-> {}]

Get(m, key, default) == IF key \in DOMAIN m THEN m[key] ELSE default

(* trim_optional_header that also drops the first header line. *)
trim_past_header(ls) ==
  LET H == {k \in 1..Len(ls) : is_header(ls[k])}
  IN IF H = {} THEN ls
     ELSE SubSeq(ls, (CHOOSE k \in H : \A h \in H : k <= h) + 1, Len(ls))

(* trim_optional_header: drop the lines before the first header line; a    *)
(* text without a header line is returned as it is.                         *)
trim_optional_header(ls) ==
  LET H == {k \in 1..Len(ls) : is_header(ls[k])}
  IN IF H = {} THEN ls
     ELSE SubSeq(ls, CHOOSE k \in H : \A h \in H : k <= h, Len(ls))

(* The inner loop stopping one line early. *)
in_block_short(ls, k) == k < Len(ls) /\ ~is_header(ls[k])

(* The inner loop testing the entry grammar before the header grammar. *)
in_block_entry_first(ls, k) == k <= Len(ls) /\ (is_entry(ls[k]) \/ ~is_header(ls[k]))

(* The condition of the inner loop of parse_blocks. *)
in_block(ls, k) == k <= Len(ls) /\ ~is_header(ls[k])

(* cat_lines[cat] = {line} in place of add. *)
add_line_overwrite(cl, c, line) ==
  [x \in DOMAIN cl \cup {c} |-> IF x = c THEN {line} ELSE cl[x]]

(* cat_lines[cat].add(line) on a defaultdict(set) *)
add_line(cl, c, line) ==
  [x \in DOMAIN cl \cup {c} |-> IF x = c THEN Get(cl, c, {}) \cup {line} ELSE cl[x]]

(* per_file_cats[filepath][cat] = lines in place of update. *)
update_cats_overwrite(per, fp, cl) ==
  IF DOMAIN cl = {} THEN per
  ELSE LET old == Get(per, fp, EmptyMap)
       IN [q \in DOMAIN per \cup {fp} |->
             IF q = fp
             THEN [c \in DOMAIN old \cup DOMAIN cl |->
                     IF c \in DOMAIN cl THEN cl[c] ELSE old[c]]
             ELSE per[q]]

(* for cat, lines in cat_lines.items(): per_file_cats[filepath][cat].update(lines) *)
update_cats(per, fp, cl) ==
  IF DOMAIN cl = {} THEN per
  ELSE LET old == Get(per, fp, EmptyMap)
       IN [q \in DOMAIN per \cup {fp} |->
             IF q = fp
             THEN [c \in DOMAIN old \cup DOMAIN cl |->
                     Get(old, c, {}) \cup Get(cl, c, {})]
             ELSE per[q]]

(* The new entries put in front of the file's list. *)
extend_unrec_front(per, fp, unrec) ==
  [q \in DOMAIN per \cup {fp} |->
     IF q = fp THEN unrec \o Get(per, fp, <<>>) ELSE per[q]]

(* per_file_unrec[filepath].extend(unrec) on a defaultdict(list) *)
extend_unrec(per, fp, unrec) ==
  [q \in DOMAIN per \cup {fp} |->
     IF q = fp THEN Get(per, fp, <<>>) \o unrec ELSE per[q]]

(* order_categories without the preference list. *)
order_categories_sorted(m) ==
  LET cs == sorted_cats(DOMAIN m)
  IN [n \in DOMAIN cs |-> [cat |-> cs[n], lines |-> sorted_ints(m[cs[n]])]]

(* order_categories: the categories of the map that are in the preference  *)
(* list, in its order, then the others in sorted order, each with its      *)
(* sorted lines.                                                            *)
order_categories(m) ==
  LET InMap(c) == c \in DOMAIN m
      pref == SelectSeq(PREFERRED_ORDER, InMap)
      rest == sorted_cats(DOMAIN m \ {pref[n] : n \in DOMAIN pref})
      cs == pref \o rest
  IN [n \in DOMAIN cs |-> [cat |-> cs[n], lines |-> sorted_ints(m[cs[n]])]]

(* f"  - {cat} ({len(lines)}): {', '.join(map(str, lines))}" *)
format_category(c) ==
  [cat |-> c.cat, count |-> str(Len(c.lines)),
   lines |-> [n \in DOMAIN c.lines |-> str(c.lines[n])]]

(* One merged block per file of per_file_cats, files in sorted order. *)
format_summaries(per) ==
  LET fs == sorted_paths(DOMAIN per)
  IN [n \in DOMAIN fs |->
        LET ordered == order_categories(per[fs[n]])
        IN [file |-> fs[n],
            cats |-> [j \in DOMAIN ordered |-> format_category(ordered[j])]]]

(* f"- {filepath} @ {line}: {msg}" for every entry of every file, files in *)
(* sorted order.                                                            *)
RECURSIVE format_unrec(_, _)
format_unrec(per, fs) ==
  IF fs = <<>> THEN <<>>
  ELSE [n \in DOMAIN per[Head(fs)] |->
          [k |-> "unrec", file |-> Head(fs), line |-> str(per[Head(fs)][n].line),
           msg |-> per[Head(fs)][n].msg]]
       \o format_unrec(per, Tail(fs))

(* any(per_file_unrec.values()) *)
any_unrec(per) == \E f \in DOMAIN per : per[f] # <<>>

---------------------------------------------------------------------------
(* The run of main() on one input *)

VARIABLES
  lines,            \* the lines of the input file
  raw,              \* main: raw
  pc,               \* position of the run
  i,                \* parse_blocks: i (from 1)
  filepath,         \* parse_blocks: filepath
  entries,          \* parse_blocks: entries
  blocks,           \* the blocks parse_blocks has yielded so far
  e,                \* summarize_entries: position in entries (from 1)
  cat,              \* summarize_entries: cat
  cat_lines,        \* summarize_entries: cat_lines
  unreconcilable,   \* summarize_entries: unreconcilable
  per_file_cats,    \* main: per_file_cats
  per_file_unrec,   \* main: per_file_unrec
  any_blocks,       \* main: any_blocks
  stdout,           \* what has been printed
  exit_code         \* exit status, -1 while running

vars ==
  <<lines, raw, pc, i, filepath, entries, blocks, e, cat, cat_lines, unreconcilable,
    per_file_cats, per_file_unrec, any_blocks, stdout, exit_code>>

Init ==
  /\ lines \in Inputs
  /\ raw = lines
  /\ pc = "trim"
  /\ i = 1
  /\ filepath = <<>>
  /\ entries = <<>>
  /\ blocks = <<>>
  /\ e = 1
  /\ cat = None
  /\ cat_lines = EmptyMap
  /\ unreconcilable = <<>>
  /\ per_file_cats = EmptyMap
  /\ per_file_unrec = EmptyMap
  /\ any_blocks = FALSE
  /\ stdout = <<>>
  /\ exit_code = -1

(* raw = trim_optional_header(raw) *)
Trim ==
  /\ pc = "trim"
  /\ raw' = trim_optional_header(raw)
  /\ pc' = "parse"
  /\ UNCHANGED <<lines, i, filepath, entries, blocks, e, cat, cat_lines, unreconcilable,
                 per_file_cats, per_file_unrec, any_blocks, stdout, exit_code>>

(* parse_blocks, outer loop: a line that is not a header is passed over. *)
ParseSkip ==
  /\ pc = "parse"
  /\ i <= Len(raw)
  /\ ~is_header(raw[i])
  /\ i' = i + 1
  /\ UNCHANGED <<lines, raw, pc, filepath, entries, blocks, e, cat, cat_lines,
                 unreconcilable, per_file_cats, per_file_unrec, any_blocks, stdout,
                 exit_code>>

(* parse_blocks, outer loop: a header opens a block. *)
ParseHeader ==
  /\ pc = "parse"
  /\ i <= Len(raw)
  /\ is_header(raw[i])
  /\ filepath' = header_file(raw[i])
  /\ entries' = <<>>
  /\ i' = i + 1
  /\ pc' = "block"
  /\ UNCHANGED <<lines, raw, blocks, e, cat, cat_lines, unreconcilable, per_file_cats,
                 per_file_unrec, any_blocks, stdout, exit_code>>

(* parse_blocks, inner loop: one line of the block. *)
ParseEntry ==
  /\ pc = "block"
  /\ in_block(raw, i)
  /\ entries' = IF is_entry(raw[i]) THEN Append(entries, entry_of(raw[i])) ELSE entries
  /\ i' = i + 1
  /\ UNCHANGED <<lines, raw, pc, filepath, blocks, e, cat, cat_lines, unreconcilable,
                 per_file_cats, per_file_unrec, any_blocks, stdout, exit_code>>

(* parse_blocks yields the block; main sets any_blocks and calls           *)
(* summarize_entries, which starts with empty results.                      *)
YieldBlock ==
  /\ pc = "block"
  /\ ~in_block(raw, i)
  /\ blocks' = Append(blocks, [file |-> filepath, entries |-> entries])
  /\ any_blocks' = TRUE
  /\ e' = 1
  /\ cat_lines' = EmptyMap
  /\ unreconcilable' = <<>>
  /\ pc' = "summarize"
  /\ UNCHANGED <<lines, raw, i, filepath, entries, cat, per_file_cats, per_file_unrec,
                 stdout, exit_code>>

(* summarize_entries: one entry. *)
SummarizeEntry ==
  /\ pc = "summarize"
  /\ e <= Len(entries)
  /\ cat' = classify(entries[e].msg)
  /\ IF cat' = None
     THEN /\ unreconcilable' = Append(unreconcilable, entries[e])
          /\ UNCHANGED cat_lines
     ELSE /\ cat_lines' = add_line(cat_lines, cat', entries[e].line)
          /\ UNCHANGED unreconcilable
  /\ e' = e + 1
  /\ UNCHANGED <<lines, raw, pc, i, filepath, entries, blocks, per_file_cats,
                 per_file_unrec, any_blocks, stdout, exit_code>>

(* summarize_entries returns; main merges the block into the file's data. *)
Aggregate ==
  /\ pc = "summarize"
  /\ e > Len(entries)
  /\ per_file_cats' = update_cats(per_file_cats, filepath, cat_lines)
  /\ per_file_unrec' = extend_unrec(per_file_unrec, filepath, unreconcilable)
  /\ pc' = "parse"
  /\ UNCHANGED <<lines, raw, i, filepath, entries, blocks, e, cat, cat_lines,
                 unreconcilable, any_blocks, stdout, exit_code>>

(* if not any_blocks: print the message and sys.exit(0) *)
NoBlocks ==
  /\ pc = "parse"
  /\ i > Len(raw)
  /\ ~any_blocks
  /\ stdout' = Append(stdout, [k |-> "no_blocks"])
  /\ exit_code' = 0
  /\ pc' = "done"
  /\ UNCHANGED <<lines, raw, i, filepath, entries, blocks, e, cat, cat_lines,
                 unreconcilable, per_file_cats, per_file_unrec, any_blocks>>

(* print("\n\n".join(outputs)) *)
PrintSummaries ==
  /\ pc = "parse"
  /\ i > Len(raw)
  /\ any_blocks
  /\ stdout' = Append(stdout, [k |-> "summaries", files |-> format_summaries(per_file_cats)])
  /\ pc' = "unrec"
  /\ UNCHANGED <<lines, raw, i, filepath, entries, blocks, e, cat, cat_lines,
                 unreconcilable, per_file_cats, per_file_unrec, any_blocks, exit_code>>

(* The unreconcilable section, if there is any such entry; main returns. *)
PrintUnrec ==
  /\ pc = "unrec"
  /\ stdout' =
       IF any_unrec(per_file_unrec)
       THEN stdout \o <<[k |-> "unrec_header"]>>
              \o format_unrec(per_file_unrec, sorted_paths(DOMAIN per_file_unrec))
       ELSE stdout
  /\ exit_code' = 0
  /\ pc' = "done"
  /\ UNCHANGED <<lines, raw, i, filepath, entries, blocks, e, cat, cat_lines,
                 unreconcilable, per_file_cats, per_file_unrec, any_blocks>>

Next ==
  \/ Trim
  \/ ParseSkip
  \/ ParseHeader
  \/ ParseEntry
  \/ YieldBlock
  \/ SummarizeEntry
  \/ Aggregate
  \/ NoBlocks
  \/ PrintSummaries
  \/ PrintUnrec

Spec == Init /\ [][Next]_vars

---------------------------------------------------------------------------
(* What the input says, read off the lines without running the parser *)

HdrIdx == {k \in 1..Len(lines) : lines[k] \in HeaderLines}

(* The header that owns line k: the last header above it. *)
HasOwner(k) == \E h \in HdrIdx : h < k
OwnerOf(k) == CHOOSE h \in HdrIdx : h < k /\ \A g \in HdrIdx : g < k => g <= h

EntIdx ==
  {k \in 1..Len(lines) :
     lines[k] \notin HeaderLines /\ lines[k] \in EntryLines /\ HasOwner(k)}

PathOf(k) == PathTab[lines[OwnerOf(k)]]
EntryAt(k) == EntryTab[lines[k]]

(* The rules that match a message, and the category of the first of them. *)
Matching(msg) == MatchTab[msg]
FirstMatchTab ==
  [m \in Messages |->
     IF MatchTab[m] = {} THEN None
     ELSE RULES[CHOOSE n \in MatchTab[m] : \A j \in MatchTab[m] : n <= j][2]]
FirstMatchCat(msg) == FirstMatchTab[msg]

UnrecIdx == {k \in EntIdx : FirstMatchCat(EntryAt(k).msg) = None}

(* The printed report *)
Printed(kind) == LET Is(x) == x.k = kind IN SelectSeq(stdout, Is)
SummFiles == IF Printed("summaries") = <<>> THEN <<>> ELSE Printed("summaries")[1].files
Digits(t) == Len(t) > 0 /\ \A n \in DOMAIN t : t[n] \in Digit

Done == pc = "done"

---------------------------------------------------------------------------
(* Claims *)

(* C1: in a printed file summary "Redefined name" is placed by the          *)
(* preference list, that is before "Bad code logic", never behind it as    *)
(* the alphabetical fallback would place it.                                *)
C1_RedefinedBeforeBadLogic ==
  \A f \in DOMAIN SummFiles : \A m, n \in DOMAIN SummFiles[f].cats :
    (SummFiles[f].cats[m].cat = "Bad code logic"
       /\ SummFiles[f].cats[n].cat = "Redefined name") => n < m

(* C2: at the end of a run with blocks, every file path that heads a block *)
(* with at least one entry has exactly one file summary in the report.     *)
C2_OneSummaryPerFile ==
  (Done /\ HdrIdx # {}) =>
    \A k \in EntIdx :
      Cardinality({f \in DOMAIN SummFiles : SummFiles[f].file = PathOf(k)}) = 1

(* C3, as claimed: at the end of the run the line number of every parsed   *)
(* entry is in exactly one category's line set of its file and the entry   *)
(* is not in the unreconcilable list, or it is in no line set and the      *)
(* entry is in the unreconcilable list.                                     *)
C3_LineInExactlyOnePlace ==
  Done =>
    \A k \in EntIdx :
      LET cm == Get(per_file_cats, PathOf(k), EmptyMap)
          cs == {c \in DOMAIN cm : EntryAt(k).line \in cm[c]}
          un == Get(per_file_unrec, PathOf(k), <<>>)
          inUn == \E n \in DOMAIN un : un[n] = EntryAt(k)
      IN \/ Cardinality(cs) = 1 /\ ~inUn
         \/ cs = {} /\ inUn

(* C3, amended: at the end of the run every parsed entry is recorded in    *)
(* exactly one place, decided by its message: under the category of the    *)
(* first matching rule (and then the pair is not in the unreconcilable     *)
(* list), or in the unreconcilable list if no rule matches; and nothing    *)
(* else is recorded: a line number is in a category's set, and a pair in   *)
(* the unreconcilable list, only on account of such an entry of the file.  *)
C3_EntryInExactlyOnePlace ==
  Done =>
    /\ \A k \in EntIdx :
         LET c == FirstMatchCat(EntryAt(k).msg)
             cm == Get(per_file_cats, PathOf(k), EmptyMap)
             un == Get(per_file_unrec, PathOf(k), <<>>)
             inUn == \E n \in DOMAIN un : un[n] = EntryAt(k)
         IN IF c = None THEN inUn
            ELSE c \in DOMAIN cm /\ EntryAt(k).line \in cm[c] /\ ~inUn
    /\ \A f \in DOMAIN per_file_cats : \A c \in DOMAIN per_file_cats[f] :
         \A l \in per_file_cats[f][c] :
           \E k \in EntIdx :
             PathOf(k) = f /\ EntryAt(k).line = l /\ FirstMatchCat(EntryAt(k).msg) = c
    /\ \A f \in DOMAIN per_file_unrec : \A n \in DOMAIN per_file_unrec[f] :
         \E k \in UnrecIdx : PathOf(k) = f /\ EntryAt(k) = per_file_unrec[f][n]

(* C3 witness: a finished run in which two entries of one file have the    *)
(* same line number and different categories, and a third is unclassified. *)
C3_Witness ==
  /\ Done
  /\ \E j, k \in EntIdx \ UnrecIdx :
       /\ PathOf(j) = PathOf(k)
       /\ EntryAt(j).line = EntryAt(k).line
       /\ FirstMatchCat(EntryAt(j).msg) # FirstMatchCat(EntryAt(k).msg)
       /\ \E u \in UnrecIdx : PathOf(u) = PathOf(k)

(* The lines of file f that the input puts under category c. *)
LinesOf(f, c) ==
  {EntryAt(k).line : k \in {j \in EntIdx : PathOf(j) = f /\ FirstMatchCat(EntryAt(j).msg) = c}}

(* C4: in the printed report every category line of a file lists exactly   *)
(* the line numbers of that file's entries of that category, from all its  *)
(* blocks, each once and ascending, with their number as the count; and    *)
(* every category some entry of a file falls in has such a line.           *)
C4_UnionAcrossBlocks ==
  (Done /\ HdrIdx # {}) =>
    /\ \A f \in DOMAIN SummFiles : \A n \in DOMAIN SummFiles[f].cats :
         LET ce == SummFiles[f].cats[n]
             want == LinesOf(SummFiles[f].file, ce.cat)
         IN /\ \A m \in DOMAIN ce.lines : Digits(ce.lines[m])
            /\ {int(ce.lines[m]) : m \in DOMAIN ce.lines} = want
            /\ \A a, b \in DOMAIN ce.lines : a < b => int(ce.lines[a]) < int(ce.lines[b])
            /\ Digits(ce.count) /\ int(ce.count) = Cardinality(want)
    /\ \A k \in EntIdx \ UnrecIdx :
         \E f \in DOMAIN SummFiles : \E n \in DOMAIN SummFiles[f].cats :
           /\ SummFiles[f].file = PathOf(k)
           /\ SummFiles[f].cats[n].cat = FirstMatchCat(EntryAt(k).msg)

(* C4 witness: a finished run in which two blocks of one path carry        *)
(* entries of one category with the same line number.                      *)
C4_Witness ==
  /\ Done
  /\ \E j, k \in EntIdx \ UnrecIdx :
       /\ OwnerOf(j) # OwnerOf(k) /\ PathOf(j) = PathOf(k)
       /\ FirstMatchCat(EntryAt(j).msg) = FirstMatchCat(EntryAt(k).msg)
       /\ EntryAt(j).line = EntryAt(k).line

(* C5: the category summarize_entries has just got from classify is that   *)
(* of the lowest-numbered rule that matches the message, and it is the     *)
(* unclassified value exactly when no rule matches.                         *)
C5_FirstMatchWins ==
  (pc = "summarize" /\ e > 1) =>
    LET msg == entries[e - 1].msg
    IN /\ cat = FirstMatchCat(msg)
       /\ (cat = None) <=> (Matching(msg) = {})
       /\ cat = None \/ \E n \in Matching(msg) :
            RULES[n][2] = cat /\ \A m \in Matching(msg) : n <= m

(* C5 witness: a message has been classified that matches both the Unused  *)
(* import rule and the Complexity limit rule.                               *)
C5_Witness ==
  /\ pc = "summarize" /\ e > 1
  /\ \E m, n \in Matching(entries[e - 1].msg) :
       RULES[m][2] = "Unused import" /\ RULES[n][2] = "Complexity limit"
  /\ cat = "Unused import"

(* The unclassified entries of file f, in input order. *)
UnrecOf(f) ==
  LET ks == sorted_ints({k \in UnrecIdx : PathOf(k) = f})
  IN [n \in DOMAIN ks |-> EntryAt(ks[n])]

(* C6: at the end of a run with blocks the unreconcilable section lists    *)
(* every entry whose message matches no rule, once per occurrence, files   *)
(* ascending and, within a file, in input order; the section is there      *)
(* exactly when there is such an entry.                                     *)
C6_UnrecKeptInOrder ==
  (Done /\ HdrIdx # {}) =>
    LET U == Printed("unrec")
    IN /\ Len(U) = Cardinality(UnrecIdx)
       /\ Len(Printed("unrec_header")) = (IF UnrecIdx = {} THEN 0 ELSE 1)
       /\ \A m, n \in DOMAIN U :
            m < n => (U[m].file = U[n].file \/ PathLess(U[m].file, U[n].file))
       /\ \A k \in UnrecIdx :
            LET f == PathOf(k)
                IsF(x) == x.file = f
                Uf == SelectSeq(U, IsF)
            IN /\ Len(Uf) = Len(UnrecOf(f))
               /\ \A n \in DOMAIN Uf :
                    /\ Digits(Uf[n].line)
                    /\ int(Uf[n].line) = UnrecOf(f)[n].line
                    /\ Uf[n].msg = UnrecOf(f)[n].msg

(* C6 witness: a finished run in which two blocks of one path carry        *)
(* different unclassified entries.                                          *)
C6_Witness ==
  /\ Done
  /\ \E j, k \in UnrecIdx :
       OwnerOf(j) # OwnerOf(k) /\ PathOf(j) = PathOf(k) /\ EntryAt(j) # EntryAt(k)
  /\ Len(Printed("unrec")) >= 2

InPref(c) == \E n \in DOMAIN PREFERRED_ORDER : PREFERRED_ORDER[n] = c
PrefIdx(c) == CHOOSE n \in DOMAIN PREFERRED_ORDER : PREFERRED_ORDER[n] = c

(* C7: in the printed report the file summaries are in strictly ascending  *)
(* order of path; within a file the categories of the preference list come *)
(* first, in its order, then the others in ascending order of name; no     *)
(* category is shown without lines.                                         *)
C7_ReportOrder ==
  (Done /\ HdrIdx # {}) =>
    /\ \A f, g \in DOMAIN SummFiles :
         f < g => PathLess(SummFiles[f].file, SummFiles[g].file)
    /\ \A f \in DOMAIN SummFiles :
         LET cs == SummFiles[f].cats
         IN /\ \A n \in DOMAIN cs : Len(cs[n].lines) > 0 /\ cs[n].count # <<"0">>
            /\ \A m, n \in DOMAIN cs :
                 m < n =>
                   IF InPref(cs[m].cat)
                   THEN InPref(cs[n].cat) => PrefIdx(cs[m].cat) < PrefIdx(cs[n].cat)
                   ELSE ~InPref(cs[n].cat) /\ StrRank(cs[m].cat) < StrRank(cs[n].cat)

(* C7 witness: a printed file summary with two categories of the           *)
(* preference list whose alphabetical order is the reverse, and a category *)
(* outside the list.                                                        *)
C7_Witness ==
  /\ Done
  /\ \E f \in DOMAIN SummFiles : \E a, b, c \in DOMAIN SummFiles[f].cats :
       LET cs == SummFiles[f].cats
       IN /\ a < b /\ b < c
          /\ InPref(cs[a].cat) /\ InPref(cs[b].cat) /\ ~InPref(cs[c].cat)
          /\ StrRank(cs[b].cat) < StrRank(cs[a].cat)

(* C8: the "no blocks found" message is never printed for an input with a  *)
(* header line; a finished run has printed it exactly when the input has   *)
(* no header line, and then it has printed nothing else and the exit       *)
(* status is 0.                                                             *)
C8_NoBlocksIffNoHeader ==
  /\ HdrIdx # {} => Printed("no_blocks") = <<>>
  /\ Done =>
       /\ (Printed("no_blocks") # <<>>) <=> (HdrIdx = {})
       /\ HdrIdx = {} => (stdout = <<[k |-> "no_blocks"]>> /\ exit_code = 0)

(* C8 witness: a finished run on a non-empty input without a header line   *)
(* that has printed the message.                                            *)
C8_Witness ==
  Done /\ lines # <<>> /\ HdrIdx = {} /\ Printed("no_blocks") # <<>> /\ exit_code = 0

(* The block the input gives for its n-th header. *)
WantBlock(n) ==
  LET hs == sorted_ints(HdrIdx)
      hi == IF n < Len(hs) THEN hs[n + 1] ELSE Len(lines) + 1
      ks == sorted_ints({k \in (hs[n] + 1)..(hi - 1) : lines[k] \in EntryLines})
  IN [file |-> PathTab[lines[hs[n]]],
      entries |-> [m \in DOMAIN ks |-> EntryTab[lines[ks[m]]]]]

(* C9: at the end of the run the parser has yielded one block per header   *)
(* line, in input order, each with exactly the entry lines between its     *)
(* header and the next header or the end of the input, in order.           *)
C9_OneBlockPerHeader ==
  Done =>
    /\ Len(blocks) = Cardinality(HdrIdx)
    /\ \A n \in DOMAIN blocks : blocks[n] = WantBlock(n)

(* C9 witness: a finished run on an input with a line before the first     *)
(* header, a header directly followed by a header, and a block with an     *)
(* entry.                                                                   *)
C9_Witness ==
  /\ Done
  /\ 1 \notin HdrIdx
  /\ \E h \in HdrIdx : h + 1 \in HdrIdx
  /\ \E n \in DOMAIN blocks : blocks[n].entries = <<>>
  /\ \E n \in DOMAIN blocks : blocks[n].entries # <<>>

(* The lines inside a block that match both grammars. *)
DualIdx == {k \in HdrIdx : lines[k] \in EntryLines /\ HasOwner(k)}
HdrNo(k) == Cardinality({h \in HdrIdx : h <= k})

(* C10: a line inside a block that matches both the header and the entry   *)
(* grammar closes the block and opens one whose path is its digit string;  *)
(* it is an entry of neither block.                                         *)
C10_HeaderTestedFirst ==
  Done =>
    \A k \in DualIdx :
      LET n == HdrNo(k)
          next == {h \in HdrIdx : h > k} \cup {Len(lines) + 1}
          hi == CHOOSE h \in next : \A g \in next : h <= g
      IN /\ n \in DOMAIN blocks /\ n > 1
         /\ Digits(blocks[n].file)
         /\ int(blocks[n].file) = EntryAt(k).line
         /\ Len(blocks[n - 1].entries) =
              Cardinality({j \in (OwnerOf(k) + 1)..(k - 1) : lines[j] \in EntryLines})
         /\ Len(blocks[n].entries) =
              Cardinality({j \in (k + 1)..(hi - 1) : lines[j] \in EntryLines})

(* C10 witness: a finished run in which such a line stands between an      *)
(* entry of the block it closes and an entry of the block it opens.        *)
C10_Witness ==
  /\ Done
  /\ \E k \in DualIdx : k - 1 \in EntIdx /\ k + 1 \in EntIdx

====
